---- MODULE Spec2Model ----
(***************************************************************************)
(* A model of bj_components.py: the Deck (shoe), the Dealer and the        *)
(* Player of a blackjack table.                                            *)
(*                                                                         *)
(* Python values are modelled as follows.                                  *)
(*   - A str is a sequence of one-character strings: '10D' is              *)
(*     <<"1","0","D">>.  s[0] is a str of length one, At0(s).              *)
(*   - A list is a sequence; Python index i is TLA+ index i+1.             *)
(*   - None for previous_bet is the empty sequence, a value v is <<v>>.    *)
(*   - A call that raises leaves the name of the exception in exc.         *)
(***************************************************************************)
EXTENDS Integers, Sequences, FiniteSets, TLC

VARIABLES
    num_decks,          \* Deck.num_decks
    cut_card_loc,       \* Deck.cut_card_loc, counted in halves (1..4 is .5..2)
    full_deck,          \* Deck.full_deck
    current_deck,       \* Deck.current_deck (the top card is the last entry)
    hit_on_soft17,      \* Dealer.hit_on_soft17
    min_bet,            \* Dealer.min_bet
    max_bet,            \* Dealer.max_bet
    dealer_hand,        \* Dealer.current_hand
    bank,               \* Player.bank
    player_hand,        \* Player.current_hand
    current_bet,        \* Player.current_bet
    previous_bet,       \* Player.previous_bet
    previous_outcome,   \* Player.previous_outcome
    op,                 \* the method called last
    arg,                \* its argument
    ret,                \* its return value
    exc,                \* the exception it raised, or "none"
    table_query         \* the key it looked up in the strategy table, or <<>>

vars == <<num_decks, cut_card_loc, full_deck, current_deck, hit_on_soft17,
          min_bet, max_bet, dealer_hand, bank, player_hand, current_bet,
          previous_bet, previous_outcome, op, arg, ret, exc, table_query>>

deckVars == <<num_decks, cut_card_loc, full_deck, current_deck>>
dealerVars == <<hit_on_soft17, min_bet, max_bet, dealer_hand>>
playerVars == <<bank, player_hand, current_bet, previous_bet, previous_outcome>>

(***************************************************************************)
(* Bounds of the model.                                                    *)
(***************************************************************************)
\* Hands are drawn from the cards of the first HandSuits suits of one_deck.
HandSuits == 1
\* The longest hand passed to the evaluator and to the deciders.
MaxHand == 3
\* The longest dealer hand when the player decides (the upcard is its first).
MaxDealerHand == 1
\* The shoe is built from the first ShoeCards cards of one_deck, and the 52
\* of shuffle's cut-card location is the number of cards of that deck.
ShoeCards == 2
\* num_decks ranges over 1..MaxDecks.
MaxDecks == 2
\* The bank stays within -MaxDebt..MaxBank and starts within 0..MaxBank.
MaxBank == 5
MaxDebt == 2
\* min_bet ranges over 1..MaxMinBet, max_bet over min_bet..MaxMaxBet.
MaxMinBet == 2
MaxMaxBet == 4
\* pay_out is called with winnings of -MaxPay..MaxPay.
MaxPay == 2
\* check_bet_allowed is called with amounts of 0..MaxAmount.
MaxAmount == 6

(***************************************************************************)
(* Strings and cards                                                       *)
(***************************************************************************)
DigitChar == <<"0", "1", "2", "3", "4", "5", "6", "7", "8", "9">>

\* str(n) of a non-negative int, what an f-string makes of it.
RECURSIVE Str(_)
Str(n) ==
    IF n < 10 THEN <<DigitChar[n + 1]>>
    ELSE Str(n \div 10) \o <<DigitChar[(n % 10) + 1]>>

\* int(c) of a one-character str of a digit.
IntOf(c) == CHOOSE d \in 0..9 : DigitChar[d + 1] = c[1]

\* s[0] of a str: its first character, a str of length one.
At0(s) == <<s[1]>>

Suits == << <<"D">>, <<"H">>, <<"C">>, <<"S">> >>

\* list(range(2,11)) + ['J','Q','K','A'], each as the f-string formats it.
Vals == [i \in 1..9 |-> Str(i + 1)] \o << <<"J">>, <<"Q">>, <<"K">>, <<"A">> >>

\* [f"{val}{suit}" for suit in [...] for val in ...]: suit-major order.
one_deck ==
    [k \in 1..(Len(Suits) * Len(Vals)) |->
        Vals[((k - 1) % Len(Vals)) + 1] \o Suits[((k - 1) \div Len(Vals)) + 1]]

\* The cut-card marker inserted by shuffle.
CutCard == <<"0">>

Cards == {one_deck[k] : k \in 1..(HandSuits * Len(Vals))}

Hands(n) == UNION {[1..k -> Cards] : k \in 0..n}

(***************************************************************************)
(* Dealer.check_hand_total and Dealer.check_blackjack                      *)
(***************************************************************************)
RECURSIVE sum(_)
sum(s) == IF s = <<>> THEN 0 ELSE Head(s) + sum(Tail(s))

FaceChars == {<<"J">>, <<"Q">>, <<"K">>}

\* The value the comprehension of check_hand_total gives one card.
card_val(card) ==
    IF At0(card) \notin (FaceChars \cup {<<"A">>}) THEN IntOf(At0(card))
    ELSE IF At0(card) \in FaceChars THEN 10
    ELSE 1

check_hand_total(hand) ==
    LET hand_vals == [i \in 1..Len(hand) |-> card_val(hand[i])]
        aces == {i \in 1..Len(hand) : hand_vals[i] = 1}
        hand_sum == sum(hand_vals)
        sum_with_eleven_ace == hand_sum + 10
    IN  IF aces # {} THEN
            IF sum_with_eleven_ace <= 21 THEN sum_with_eleven_ace ELSE hand_sum
        ELSE hand_sum

\* The list ['10', 'J', 'Q', 'K'] a card's first character is looked up in.
TenList == {<<"1", "0">>, <<"J">>, <<"Q">>, <<"K">>}

\* Defined for hands of two or more cards; shorter hands raise IndexError.
check_blackjack(hand) ==
    \/ (At0(hand[1]) = <<"A">> /\ At0(hand[2]) \in TenList)
    \/ (At0(hand[2]) = <<"A">> /\ At0(hand[1]) \in TenList)

dealer_decide_next_move(hand) ==
    IF check_hand_total(hand) < 17 THEN "hit" ELSE "stand"

(***************************************************************************)
(* The dealer and the hand evaluator: SpecDealer                           *)
(***************************************************************************)
NoDeck ==
    /\ num_decks = 1
    /\ cut_card_loc = 2
    /\ full_deck = <<>>
    /\ current_deck = <<>>

NoPlayer ==
    /\ bank = 0
    /\ player_hand = <<>>
    /\ current_bet = 0
    /\ previous_bet = <<>>
    /\ previous_outcome = "None"

NoCall ==
    /\ op = "__init__"
    /\ arg = <<>>
    /\ ret = "None"
    /\ exc = "none"
    /\ table_query = <<>>

InitDealer ==
    /\ NoDeck
    /\ NoPlayer
    /\ NoCall
    /\ hit_on_soft17 \in BOOLEAN
    /\ min_bet = 15
    /\ max_bet = 1000
    /\ dealer_hand \in Hands(MaxHand)

CheckHandTotal ==
    /\ op' = "check_hand_total"
    /\ arg' = dealer_hand
    /\ ret' = check_hand_total(dealer_hand)
    /\ exc' = "none"
    /\ table_query' = <<>>
    /\ UNCHANGED <<deckVars, dealerVars, playerVars>>

CheckBlackjack ==
    /\ op' = "check_blackjack"
    /\ arg' = dealer_hand
    /\ IF Len(dealer_hand) < 2
       THEN ret' = "None" /\ exc' = "IndexError"
       ELSE ret' = check_blackjack(dealer_hand) /\ exc' = "none"
    /\ table_query' = <<>>
    /\ UNCHANGED <<deckVars, dealerVars, playerVars>>

DealerDecideNextMove ==
    /\ op' = "Dealer.decide_next_move"
    /\ arg' = <<>>
    /\ ret' = dealer_decide_next_move(dealer_hand)
    /\ exc' = "none"
    /\ table_query' = <<>>
    /\ UNCHANGED <<deckVars, dealerVars, playerVars>>

ResetHand ==
    /\ op' = "reset_hand"
    /\ arg' = <<>>
    /\ ret' = "None"
    /\ exc' = "none"
    /\ table_query' = <<>>
    /\ dealer_hand' = <<>>
    /\ UNCHANGED <<deckVars, hit_on_soft17, min_bet, max_bet, playerVars>>

NextDealer ==
    \/ CheckHandTotal
    \/ CheckBlackjack
    \/ DealerDecideNextMove
    \/ ResetHand

SpecDealer == InitDealer /\ [][NextDealer]_vars

(***************************************************************************)
(* The reference blackjack rules the claims are stated against             *)
(***************************************************************************)
\* A card's rank: the card string without its suit character.
Rank(card) == SubSeq(card, 1, Len(card) - 1)

TenRanks == {Str(10), <<"J">>, <<"Q">>, <<"K">>}

RefValue(card) ==
    IF Rank(card) = <<"A">> THEN 1
    ELSE IF Rank(card) \in TenRanks THEN 10
    ELSE CHOOSE v \in 2..9 : Str(v) = Rank(card)

HasAce(hand) == \E i \in 1..Len(hand) : Rank(hand[i]) = <<"A">>

RefBase(hand) == sum([i \in 1..Len(hand) |-> RefValue(hand[i])])

RefTotal(hand) ==
    IF HasAce(hand) /\ RefBase(hand) + 10 <= 21
    THEN RefBase(hand) + 10
    ELSE RefBase(hand)

RefBlackjack(hand) ==
    \/ (Rank(hand[1]) = <<"A">> /\ Rank(hand[2]) \in TenRanks)
    \/ (Rank(hand[2]) = <<"A">> /\ Rank(hand[1]) \in TenRanks)

\* A soft 17: a total of 17 reached by counting an Ace as 11.
Soft17(hand) == HasAce(hand) /\ RefBase(hand) + 10 = 17

\* C1: for every hand of deck cards, check_hand_total returns the reference
\* blackjack total: 2..10 at face value (a 10 counts 10), J/Q/K as 10, each
\* Ace as 1, plus 10 when the hand holds an Ace and that keeps it at most 21.
C1_TotalIsReference ==
    (op = "check_hand_total" /\ exc = "none") => ret = RefTotal(arg)

\* C2: for every two-card hand of deck cards, check_blackjack returns true
\* exactly when one card is an Ace and the other is a 10, J, Q or K.
C2_BlackjackIffAceTen ==
    (op = "check_blackjack" /\ Len(arg) = 2) =>
        (exc = "none" /\ ret = RefBlackjack(arg))

\* C4: Dealer.decide_next_move returns 'hit' when the hand total is below 17
\* and 'stand' when it is 18 or more; on a soft 17 it returns 'hit' exactly
\* when hit_on_soft17 is enabled, and on a hard 17 it returns 'stand'.  The
\* hand total is the one check_hand_total gives the dealer's hand.
C4_DealerMoveRule ==
    op = "Dealer.decide_next_move" =>
        LET total == check_hand_total(dealer_hand)
        IN  /\ total < 17 => ret = "hit"
            /\ total >= 18 => ret = "stand"
            /\ (total = 17 /\ Soft17(dealer_hand)) =>
                   (ret = "hit" <=> hit_on_soft17)
            /\ (total = 17 /\ ~Soft17(dealer_hand)) => ret = "stand"

(***************************************************************************)
(* Player.decide_next_move: SpecPlayer                                     *)
(***************************************************************************)
move_dict == [c \in {"H", "S", "D", "SP"} |->
                 CASE c = "H" -> "hit"
                   [] c = "S" -> "stand"
                   [] c = "D" -> "double"
                   [] c = "SP" -> "split"]

\* What play_strategy.loc[key, dealer_card] can give: the strategy table is
\* read from a file outside the module, so any code, or no entry (KeyError).
TableAnswers == DOMAIN move_dict \cup {"KeyError"}

\* The row key decide_next_move builds for a hand that is not blackjack.
hand_key(hand) ==
    IF Len(hand) = 2 THEN
        IF At0(hand[1]) = At0(hand[2])
        THEN At0(hand[1]) \o <<",">> \o At0(hand[2])
        ELSE IF At0(hand[1]) = <<"A">> \/ At0(hand[2]) = <<"A">>
        THEN IF At0(hand[1]) = <<"A">>
             THEN <<"A">> \o At0(hand[2])
             ELSE <<"A">> \o At0(hand[1])
        ELSE Str(check_hand_total(hand))
    ELSE Str(check_hand_total(hand))

\* True when decide_next_move returns 'stand' before any lookup.
stands_on_blackjack(hand) == Len(hand) = 2 /\ check_blackjack(hand)

InitPlayer ==
    /\ NoDeck
    /\ NoCall
    /\ hit_on_soft17 = TRUE
    /\ min_bet = 15
    /\ max_bet = 1000
    /\ dealer_hand \in Hands(MaxDealerHand)
    /\ bank = 1000
    /\ player_hand \in Hands(MaxHand)
    /\ current_bet = 0
    /\ previous_bet = <<>>
    /\ previous_outcome = "None"

PlayerDecideNextMove ==
    /\ op' = "Player.decide_next_move"
    /\ arg' = <<>>
    /\ IF dealer_hand = <<>> THEN
           /\ ret' = "None"
           /\ exc' = "IndexError"
           /\ table_query' = <<>>
       ELSE IF stands_on_blackjack(player_hand) THEN
           /\ ret' = "stand"
           /\ exc' = "none"
           /\ table_query' = <<>>
       ELSE \E answer \in TableAnswers :
           /\ table_query' = <<hand_key(player_hand), At0(dealer_hand[1]), answer>>
           /\ IF answer = "KeyError"
              THEN ret' = "None" /\ exc' = "KeyError"
              ELSE ret' = move_dict[answer] /\ exc' = "none"
    /\ UNCHANGED <<deckVars, dealerVars, playerVars>>

NextPlayer == PlayerDecideNextMove

SpecPlayer == InitPlayer /\ [][NextPlayer]_vars

\* The hand signature of the strategy table: "{rank},{rank}" for a two-card
\* pair, "A{other_rank}" for a two-card hand with an Ace that is no pair, the
\* hand total as a string otherwise.
RefSignature(hand) ==
    IF Len(hand) = 2 /\ Rank(hand[1]) = Rank(hand[2])
    THEN Rank(hand[1]) \o <<",">> \o Rank(hand[2])
    ELSE IF Len(hand) = 2 /\ Rank(hand[1]) = <<"A">>
    THEN <<"A">> \o Rank(hand[2])
    ELSE IF Len(hand) = 2 /\ Rank(hand[2]) = <<"A">>
    THEN <<"A">> \o Rank(hand[1])
    ELSE Str(check_hand_total(hand))

\* C10: Player.decide_next_move returns 'stand' without a table lookup when
\* the two-card hand is an Ace with a 10, J, Q or K; otherwise it looks up the
\* hand signature under the rank of the dealer's first card (2..10, J, Q, K,
\* A) and returns the full name of the move code the table gives.
C10_PlayerMoveLookup ==
    (op = "Player.decide_next_move" /\ dealer_hand # <<>>) =>
        IF Len(player_hand) = 2 /\ RefBlackjack(player_hand)
        THEN ret = "stand" /\ exc = "none" /\ table_query = <<>>
        ELSE /\ table_query # <<>>
             /\ table_query[1] = RefSignature(player_hand)
             /\ table_query[2] = Rank(dealer_hand[1])
             /\ exc = "none" => ret = move_dict[table_query[3]]

(***************************************************************************)
(* Deck.shuffle and Dealer.deal_card: SpecDeck                             *)
(*                                                                         *)
(* Deck.__init__ builds full_deck from the bare name one_deck, which the   *)
(* module binds only as a class attribute.  The decks below are those the  *)
(* constructor describes: full_deck holds num_decks copies of the deck and *)
(* current_deck is the result of the shuffle the constructor ends with.    *)
(***************************************************************************)
deck_cards == SubSeq(one_deck, 1, ShoeCards)

CardsPerDeck == Len(deck_cards)

\* list * n
RECURSIVE Repeat(_, _)
Repeat(list, n) == IF n <= 0 THEN <<>> ELSE list \o Repeat(list, n - 1)

Range(list) == {list[i] : i \in 1..Len(list)}

\* list.insert(i, x) for i >= 0: an index past the end appends.
insert(list, i, x) ==
    LET at == IF i > Len(list) THEN Len(list) ELSE i
    IN  SubSeq(list, 1, at) \o <<x>> \o SubSeq(list, at + 1, Len(list))

\* np.random.choice(full, size=len(full)): len(full) draws from the entries
\* of full, each draw independent of the others (replace defaults to True).
random_choice(full) == [1..Len(full) -> Range(full)]

\* int(np.random.uniform(.5, 1.5) * (52 * cut_card_loc)) for cut_card_loc of
\* cut halves: every integer of [.5, 1.5) * CardsPerDeck * cut / 2.
cut_locations(cut) ==
    ((CardsPerDeck * cut) \div 4)..(((3 * CardsPerDeck * cut + 3) \div 4) - 1)

\* The values shuffle can leave in current_deck.
shuffle(full, cut) ==
    {insert(sampled, location, CutCard) :
        sampled \in random_choice(full), location \in cut_locations(cut)}

InitDeck ==
    /\ NoPlayer
    /\ NoCall
    /\ num_decks \in 1..MaxDecks
    /\ cut_card_loc \in 1..4
    /\ full_deck = Repeat(deck_cards, num_decks)
    /\ current_deck \in shuffle(full_deck, cut_card_loc)
    /\ hit_on_soft17 = TRUE
    /\ min_bet = 15
    /\ max_bet = 1000
    /\ dealer_hand = <<>>

Shuffle ==
    /\ op' = "shuffle"
    /\ arg' = <<>>
    /\ ret' = "None"
    /\ exc' = "none"
    /\ table_query' = <<>>
    /\ current_deck' \in shuffle(full_deck, cut_card_loc)
    /\ UNCHANGED <<num_decks, cut_card_loc, full_deck, dealerVars, playerVars>>

\* self.deck.current_deck.pop(): the last entry, or IndexError when empty.
DealCard ==
    /\ op' = "deal_card"
    /\ arg' = <<>>
    /\ table_query' = <<>>
    /\ IF current_deck = <<>> THEN
           /\ ret' = "None"
           /\ exc' = "IndexError"
           /\ current_deck' = current_deck
       ELSE
           /\ ret' = current_deck[Len(current_deck)]
           /\ exc' = "none"
           /\ current_deck' = SubSeq(current_deck, 1, Len(current_deck) - 1)
    /\ UNCHANGED <<num_decks, cut_card_loc, full_deck, dealerVars, playerVars>>

NextDeck ==
    \/ Shuffle
    \/ DealCard

SpecDeck == InitDeck /\ [][NextDeck]_vars

Count(x, list) == Cardinality({i \in 1..Len(list) : list[i] = x})

\* C3: after every shuffle current_deck has one entry per card of full_deck
\* plus one, exactly one entry is the cut-card marker, and the others are a
\* permutation of full_deck: every distinct card appears num_decks times.
C3_ShuffleIsPermutation ==
    op = "shuffle" =>
        /\ Len(current_deck) = CardsPerDeck * num_decks + 1
        /\ Count(CutCard, current_deck) = 1
        /\ \A c \in Range(deck_cards) : Count(c, current_deck) = num_decks

\* C7: deal_card never returns the cut-card marker as a card.
C7_CutCardNeverDealt ==
    (op = "deal_card" /\ exc = "none") => ret # CutCard

(***************************************************************************)
(* Player.check_bet_allowed, Player.place_initial_bet, Dealer.pay_out:     *)
(* SpecBet                                                                 *)
(***************************************************************************)
\* The names bound at module level: the imports and the three classes.
GlobalNames == {"np", "pd", "Deck", "Dealer", "Player"}

\* check_bet_allowed with the bank test off by one (<= for <).
check_bet_allowed_strict(bet_amt) ==
    IF bank <= bet_amt \/ bet_amt > max_bet THEN FALSE ELSE TRUE

\* Player.check_bet_allowed, which reads the bank and dealer.max_bet only.
check_bet_allowed(bet_amt) ==
    IF bank < bet_amt \/ bet_amt > max_bet THEN FALSE ELSE TRUE

\* pay_out that ignores a negative amount.
pay_out_rejecting(player_bank, winnings) ==
    IF winnings < 0 THEN player_bank ELSE player_bank + winnings

\* player.bank += winnings
pay_out(player_bank, winnings) == player_bank + winnings

\* Python's truth value of previous_bet (None and 0 are false) and of
\* previous_outcome (None is false).
truthy_bet(b) == b # <<>> /\ b[1] # 0
truthy_outcome(o) == o # "None"

\* The three ways a call of place_initial_bet ends.
Commit(amount) ==
    [bank |-> bank - amount, current_bet |-> amount, exc |-> "none"]
Raise(e) == [bank |-> bank, current_bet |-> current_bet, exc |-> e]
ReturnNone == [bank |-> bank, current_bet |-> current_bet, exc |-> "none"]

\* place_initial_bet calls check_bet_allowed by its bare name, which is looked
\* up among the module's globals before the arguments are evaluated.
bare_call_resolves == "check_bet_allowed" \in GlobalNames

place_initial_bet ==
    IF ~truthy_bet(previous_bet) /\ ~truthy_outcome(previous_outcome) THEN
        Commit(min_bet)
    ELSE IF previous_outcome = "win" THEN
        IF previous_bet = <<min_bet>> THEN
            IF ~bare_call_resolves THEN Raise("NameError")
            ELSE IF check_bet_allowed(min_bet) THEN Commit(min_bet)
            ELSE Raise("ValueError")
        ELSE
            IF ~bare_call_resolves THEN Raise("NameError")
            ELSE IF check_bet_allowed(previous_bet[1] - min_bet)
            THEN Commit(previous_bet[1] - min_bet)
            ELSE Raise("ValueError")
    ELSE IF previous_outcome = "loss" THEN
        IF previous_bet = <<min_bet>> THEN
            IF ~bare_call_resolves THEN Raise("NameError")
            ELSE IF check_bet_allowed(previous_bet[1] + min_bet)
            THEN Commit(previous_bet[1] + min_bet)
            ELSE IF previous_bet[1] + min_bet > bank THEN Raise("ValueError")
            ELSE IF previous_bet[1] + min_bet > max_bet THEN
                IF check_bet_allowed(max_bet) THEN Commit(max_bet)
                ELSE Raise("ValueError")
            ELSE ReturnNone
        ELSE ReturnNone
    ELSE ReturnNone

InitBet ==
    /\ NoDeck
    /\ NoCall
    /\ hit_on_soft17 = TRUE
    /\ min_bet \in 1..MaxMinBet
    /\ max_bet \in min_bet..MaxMaxBet
    /\ dealer_hand = <<>>
    /\ bank \in 0..MaxBank
    /\ player_hand = <<>>
    /\ current_bet = 0
    /\ previous_bet = <<>>
    /\ previous_outcome = "None"

PlaceInitialBet ==
    LET result == place_initial_bet
    IN  /\ result.bank >= -MaxDebt
        /\ op' = "place_initial_bet"
        /\ arg' = <<>>
        /\ ret' = "None"
        /\ table_query' = <<>>
        /\ bank' = result.bank
        /\ current_bet' = result.current_bet
        /\ exc' = result.exc
        /\ UNCHANGED <<deckVars, dealerVars, player_hand, previous_bet,
                       previous_outcome>>

\* The round loop that drives the player: after a round it stores the bet of
\* the round and its outcome.
RecordOutcome ==
    \E outcome \in {"win", "loss", "push"} :
        /\ op' = "record_outcome"
        /\ arg' = outcome
        /\ ret' = "None"
        /\ exc' = "none"
        /\ table_query' = <<>>
        /\ previous_bet' = <<current_bet>>
        /\ previous_outcome' = outcome
        /\ UNCHANGED <<deckVars, dealerVars, bank, player_hand, current_bet>>

PayOut ==
    \E winnings \in -MaxPay..MaxPay :
        /\ pay_out(bank, winnings) \in -MaxDebt..MaxBank
        /\ op' = "pay_out"
        /\ arg' = winnings
        /\ ret' = "None"
        /\ exc' = "none"
        /\ table_query' = <<>>
        /\ bank' = pay_out(bank, winnings)
        /\ UNCHANGED <<deckVars, dealerVars, player_hand, current_bet,
                       previous_bet, previous_outcome>>

CheckBetAllowed ==
    \E bet_amt \in 0..MaxAmount :
        /\ op' = "check_bet_allowed"
        /\ arg' = bet_amt
        /\ ret' = check_bet_allowed(bet_amt)
        /\ exc' = "none"
        /\ table_query' = <<>>
        /\ UNCHANGED <<deckVars, dealerVars, playerVars>>

NextBet ==
    \/ PlaceInitialBet
    \/ RecordOutcome
    \/ PayOut
    \/ CheckBetAllowed

SpecBet == InitBet /\ [][NextBet]_vars

\* The bet the progression prescribes for the round about to start.
ExpectedBet ==
    IF previous_bet = <<>> THEN min_bet
    ELSE IF previous_outcome = "win" THEN
        IF previous_bet[1] = min_bet THEN min_bet ELSE previous_bet[1] - min_bet
    ELSE IF previous_bet[1] + min_bet > max_bet THEN max_bet
    ELSE previous_bet[1] + min_bet

\* The rounds the progression is stated for: the first one, and one after a
\* recorded bet of at least min_bet that was won or lost.
ProgressionCase ==
    \/ previous_bet = <<>> /\ previous_outcome = "None"
    \/ /\ previous_bet # <<>>
       /\ previous_bet[1] >= min_bet
       /\ previous_outcome \in {"win", "loss"}

\* C5: when the bank covers it, place_initial_bet commits and debits min_bet
\* on the first round; after a win min_bet if the previous bet was min_bet,
\* else previous_bet - min_bet; after a loss previous_bet + min_bet for every
\* previous bet, clamped to max_bet.
C5_BetProgression ==
    [][(op' = "place_initial_bet" /\ ProgressionCase /\ ExpectedBet <= bank) =>
          /\ exc' = "none"
          /\ current_bet' = ExpectedBet
          /\ bank' = bank - ExpectedBet]_vars

\* C6: every bet place_initial_bet commits, the first round's included, is at
\* most the bank before the debit and at most max_bet, so a bank that is not
\* negative before the call is not negative after it.
C6_CommittedBetAllowed ==
    [][op' = "place_initial_bet" =>
          /\ bank' # bank => (current_bet' <= bank /\ current_bet' <= max_bet)
          /\ bank >= 0 => bank' >= 0]_vars

\* C8: check_bet_allowed returns false exactly when the amount exceeds the
\* bank or max_bet, whatever min_bet is, and changes no state of the player,
\* the dealer or the shoe.
C8_CheckBetAllowed ==
    [][op' = "check_bet_allowed" =>
          /\ exc' = "none"
          /\ ret' = ~(arg' > bank \/ arg' > max_bet)
          /\ UNCHANGED <<deckVars, dealerVars, playerVars>>]_vars

\* C8's case: an amount below min_bet was asked about and allowed.
C8_Witness ==
    /\ op = "check_bet_allowed"
    /\ arg < min_bet
    /\ arg <= bank
    /\ ret = TRUE

====
